---- MODULE Spec2Model ----
(***************************************************************************)
(* State-machine model of streamlit_app.py, the Streamlit front end of the *)
(* synthetic data generator.                                               *)
(*                                                                         *)
(* Streamlit runs the script top to bottom on every widget interaction     *)
(* (one "render pass"); st.rerun() abandons the pass and starts a new one. *)
(* The model follows the script: pc is the position in the script, event   *)
(* is the widget that triggered the pass, and there is one action per      *)
(* handler or section of the script.  st.session_state is the persistent   *)
(* state; calls and errors hold the HTTP exchanges and the messages        *)
(* (st.error) produced by the last step.                                   *)
(***************************************************************************)
EXTENDS Integers, Sequences, FiniteSets, TLC

VARIABLES
  columns,            \* st.session_state.columns
  task_id,            \* st.session_state.task_id
  data,               \* st.session_state.data
  csv_file,           \* st.session_state.csv_file
  uploaded_file_id,   \* st.session_state.uploaded_file_id
  uploaded_file_name, \* st.session_state.uploaded_file_name
  uploaded_columns,   \* st.session_state.uploaded_columns
  rows_detected,      \* st.session_state.rows_detected (may be unset)
  append_task_id,     \* st.session_state.append_task_id
  uploaded_file,      \* value of the st.file_uploader widget
  form,               \* values of the column_form widgets in this pass
  rows_to_append,     \* value= of the "Number of rows to append" input
  pc,                 \* position of the script in the render pass
  event,              \* the trigger of the render pass, until the script reads it
  calls,              \* HTTP exchanges of the last step, in order
  errors,             \* messages surfaced by the last step
  fetched,            \* a GET /data was issued since task_id was last stored
  failed_seen         \* status "failed" was observed since then

vars ==
  << columns, task_id, data, csv_file, uploaded_file_id, uploaded_file_name,
     uploaded_columns, rows_detected, append_task_id, uploaded_file, form,
     rows_to_append, pc, event, calls, errors, fetched, failed_seen >>

freshVars == << task_id, data, csv_file >>
uploadVars ==
  << uploaded_file_id, uploaded_file_name, uploaded_columns, rows_detected >>
appendVars == << append_task_id >>
historyVars == << fetched, failed_seen >>

-----------------------------------------------------------------------------
(* Bounds of the model *)

MaxCols == 2          \* columns the user adds before clearing
RowStep == 15         \* uploaded files have k * RowStep rows ...
MaxRowMult == 8       \* ... for k in 0 .. MaxRowMult

-----------------------------------------------------------------------------
(* Values *)

\* Python's None, for the string-valued fields.
None == "None"

\* An optional value: {} is None (or an unset attribute), {v} is v.
Option(S) == {{}} \cup {{v} : v \in S}

Min(a, b) == IF a <= b THEN a ELSE b
Max(a, b) == IF a >= b THEN a ELSE b

TaskIds == {"t1", "t2", "t3"}
FileIds == {"f1", "f2"}
FileNames == {"a.csv"}
Messages == {"model timeout"}
Statuses == {"pending", "running", "completed", "failed"}

DATA_TYPES ==
  { "string", "integer", "float", "boolean", "date", "datetime", "email",
    "phone", "address", "name", "country", "state", "city", "zip", "url",
    "list" }

\* The response of GET /data/{id} as call_api returns it: None on a failed
\* call, else the JSON body: {} (falsy), a body without "data" (truthy), or
\* {"data": rows}.  task is the task whose result the body holds.
NoData == [kind |-> "none", task |-> None]
EmptyBody == [kind |-> "empty", task |-> None]
OtherBody(h) == [kind |-> "other", task |-> h]
RowsBody(h) == [kind |-> "rows", task |-> h]
DataResponses(h) == {NoData, EmptyBody, OtherBody(h), RowsBody(h)}

\* Python truthiness of a call_api result: None and {} are falsy.
Truthy(d) == d.kind \notin {"none", "empty"}
\* "data" in d
HasData(d) == d.kind = "rows"

\* The csv_file path the backend returns for a task, and its inverse.
CsvPath(h) == [csv_of |-> h]
NoCsv == [csv_of |-> None]

\* The response of GET /task/{id}: None on a failed call, else the status
\* and, possibly, a message.
NoStatus == [kind |-> "none", status |-> None, message |-> None]
StatusBody(s, m) == [kind |-> "body", status |-> s, message |-> m]
StatusResponses ==
  {NoStatus}
  \cup {StatusBody(s, None) : s \in Statuses}
  \cup {StatusBody("failed", m) : m \in Messages}
\* The backend never leaves a terminal status: a task seen failed stays so.
FailedResponses == {r \in StatusResponses : r.status \in {None, "failed"}}

\* The response of POST /generate and POST /append_data: None on a failed
\* call, a body without task_id, or {"task_id": id}.  The backend gives a
\* new task an id that none of the tasks the session holds has.
NoResult == [kind |-> "none", task_id |-> None]
MalformedResult == [kind |-> "other", task_id |-> None]
TaskResult(h) == [kind |-> "task", task_id |-> h]
SubmitResponses(held) ==
  {NoResult, MalformedResult} \cup {TaskResult(h) : h \in TaskIds \ held}

\* The response of DELETE /tasks/{id}, POST /convert_to_csv/{id}.
OkBody == [kind |-> "ok"]
NoBody == [kind |-> "none"]
CsvBody(h) == [kind |-> "csv", csv_file |-> CsvPath(h)]
MalformedBody == [kind |-> "other"]
CsvResponses(h) == {NoBody, MalformedBody, CsvBody(h)}

\* The response of GET /tasks: None on a failed call or the listed ids.
NoListing == [kind |-> "none", tasks |-> {}]
Listing(S) == [kind |-> "list", tasks |-> S]
ListResponses == {NoListing, Listing({}), Listing(TaskIds)}

\* One HTTP exchange: the request and what came back.
Call(method, endpoint, id, resp) ==
  [method |-> method, endpoint |-> endpoint, id |-> id, resp |-> resp]

\* call_api: a failed call (RequestException) is shown with st.error and
\* returns None; nothing is raised.
ApiError == [text |-> "API Error", detail |-> None]
CallApiErrors(resp) == IF resp.kind = "none" THEN {ApiError} ELSE {}

-----------------------------------------------------------------------------
(* Initial state: lines 95-117 *)

NoForm ==
  [column_name |-> "", column_type |-> "string", min_value |-> {},
   max_value |-> {}, min_length |-> {}, max_length |-> {}]

Init ==
  /\ columns = << >>
  /\ task_id = None
  /\ data = NoData
  /\ csv_file = NoCsv
  /\ uploaded_file_id = None
  /\ uploaded_file_name = None
  /\ uploaded_columns = {}
  /\ rows_detected = {}
  /\ append_task_id = None
  /\ uploaded_file = None
  /\ form = NoForm
  /\ rows_to_append = {}
  /\ pc = "wait"
  /\ event = "none"
  /\ calls = << >>
  /\ errors = {}
  /\ fetched = FALSE
  /\ failed_seen = FALSE

-----------------------------------------------------------------------------
(* The render pass *)

ColumnEvents == {"add_column", "clear_columns"}
FreshEvents == {"generate", "cancel", "convert_csv", "refresh_tasks", "load_task"}
AppendEvents == {"process_csv", "append_submit", "new_append", "different_file"}
AllEvents == ColumnEvents \cup FreshEvents \cup AppendEvents

\* The script is idle (the pass ended) or sleeps in an auto-refresh: a widget
\* interaction then starts the next pass.
Interruptible == pc \in {"wait", "sleep"}

\* The script has reached the widgets W: a trigger among them is read here
\* and is gone for the rest of the pass.
Consume(W) == event' = IF event \in W THEN "none" ELSE event

ColumnTabEvents == {"add_column", "clear_columns", "generate"}
RecentTabEvents == {"refresh_tasks", "load_task"}
\* Without a processed file the script ends after the uploader (line 398).
UploadEvents ==
  IF uploaded_file_id # None THEN {"process_csv"}
  ELSE {"process_csv", "append_submit", "new_append", "different_file"}
ResetEvents == {"new_append", "different_file"}

\* A step that touches neither the session state nor the locals.
Goto(next) ==
  /\ pc' = next
  /\ calls' = << >>
  /\ errors' = {}

\* A widget interaction starts a render pass with that widget triggered.
UserEvent(E) ==
  /\ Interruptible
  /\ \E e \in E :
       /\ e = "add_column" => Len(columns) < MaxCols
       /\ event' = e
  /\ Goto("sidebar")
  /\ form' = NoForm
  /\ rows_to_append' = {}
  /\ UNCHANGED << columns, freshVars, uploadVars, appendVars, uploaded_file,
                  historyVars >>

\* Choosing a file in st.file_uploader also starts a pass.
ChooseFile ==
  /\ Interruptible
  /\ \E f \in FileNames :
       /\ f # uploaded_file
       /\ uploaded_file' = f
  /\ event' = "none"
  /\ Goto("sidebar")
  /\ form' = NoForm
  /\ rows_to_append' = {}
  /\ UNCHANGED << columns, freshVars, uploadVars, appendVars, historyVars >>

\* The auto-refresh of a pending or running task, time.sleep(3) and
\* st.rerun() at lines 316-317 and 517-518: the script starts over.
SleepRerun ==
  /\ pc = "sleep"
  /\ event' = "auto_refresh"
  /\ Goto("sidebar")
  /\ form' = NoForm
  /\ rows_to_append' = {}
  /\ UNCHANGED << columns, freshVars, uploadVars, appendVars, uploaded_file,
                  historyVars >>

\* st.rerun() in a handler: the script starts over with no widget triggered.
AutoRerun ==
  /\ pc = "rerun"
  /\ event' = "none"
  /\ Goto("sidebar")
  /\ form' = NoForm
  /\ rows_to_append' = {}
  /\ UNCHANGED << columns, freshVars, uploadVars, appendVars, uploaded_file,
                  historyVars >>

-----------------------------------------------------------------------------
(* Sidebar: lines 124-157 *)

\* "Cancel Task" is rendered, and can fire, only while task_id is truthy.
CancelReached == task_id # None /\ event = "cancel"

\* A slip: the session state is cleared only when the deletion succeeded.
CancelTaskIfDeleted ==
  /\ pc = "sidebar"
  /\ Consume({"cancel"})
  /\ CancelReached
  /\ \E resp \in {OkBody, NoBody} :
       /\ calls' = << Call("DELETE", "tasks", task_id, resp) >>
       /\ errors' = CallApiErrors(resp)
       /\ IF resp.kind = "ok"
          THEN /\ task_id' = None
               /\ data' = NoData
               /\ csv_file' = NoCsv
               /\ fetched' = FALSE
               /\ failed_seen' = FALSE
          ELSE UNCHANGED << freshVars, historyVars >>
  /\ pc' = "rerun"
  /\ UNCHANGED << columns, uploadVars, appendVars, uploaded_file, form,
                  rows_to_append >>

CancelTask ==
  /\ pc = "sidebar"
  /\ Consume({"cancel"})
  /\ CancelReached
  /\ \E resp \in {OkBody, NoBody} :
       /\ calls' = << Call("DELETE", "tasks", task_id, resp) >>
       /\ errors' = CallApiErrors(resp)
  /\ task_id' = None
  /\ data' = NoData
  /\ csv_file' = NoCsv
  /\ fetched' = FALSE
  /\ failed_seen' = FALSE
  /\ pc' = "rerun"
  /\ UNCHANGED << columns, uploadVars, appendVars, uploaded_file, form,
                  rows_to_append >>

Sidebar ==
  /\ pc = "sidebar"
  /\ Consume({"cancel"})
  /\ ~CancelReached
  /\ Goto("tab1")
  /\ UNCHANGED << columns, freshVars, uploadVars, appendVars, uploaded_file,
                  form, rows_to_append, historyVars >>

-----------------------------------------------------------------------------
(* Column Definition tab: lines 163-241 *)

\* The values the user can type into the number inputs.
BoundVals == {0, 5}
Names == {"", "a", "b"}

\* A slip: the bounds are tested for truth, if min_value:, which drops 0.
ConstraintsTruthy(column_type, min_value, max_value, min_length, max_length) ==
  IF column_type \in {"integer", "float"}
  THEN {<<"ge", v>> : v \in min_value \ {0}}
       \cup {<<"le", v>> : v \in max_value \ {0}}
  ELSE IF column_type = "string"
  THEN {<<"min_length", v>> : v \in min_length \ {0}}
       \cup {<<"max_length", v>> : v \in max_length \ {0}}
  ELSE {}

\* Lines 180-196: the constraints dict, a set of <<key, value>> pairs.  The
\* number inputs return None ({}) while nothing has been entered.
Constraints(column_type, min_value, max_value, min_length, max_length) ==
  IF column_type \in {"integer", "float"}
  THEN {<<"ge", v>> : v \in min_value} \cup {<<"le", v>> : v \in max_value}
  ELSE IF column_type = "string"
  THEN {<<"min_length", v>> : v \in min_length}
       \cup {<<"max_length", v>> : v \in max_length}
  ELSE {}

\* Line 205: constraints if constraints else None
OrNone(d) == IF d # {} THEN {d} ELSE {}

\* Lines 201-206: the dict appended to st.session_state.columns.  The
\* description is left empty, which is stored as None.
ColumnSpec(f) ==
  [name |-> f.column_name,
   type |-> f.column_type,
   description |-> {},
   constraints |-> OrNone(Constraints(f.column_type, f.min_value, f.max_value,
                                      f.min_length, f.max_length))]

\* Line 200: submitted and column_name
NameGiven(f) == f.column_name # ""

\* The widgets of column_form: only the number inputs of the selected type's
\* branch exist in the pass.
FormValues(name, type, lo, hi) ==
  [column_name |-> name,
   column_type |-> type,
   min_value |-> IF type \in {"integer", "float"} THEN lo ELSE {},
   max_value |-> IF type \in {"integer", "float"} THEN hi ELSE {},
   min_length |-> IF type = "string" THEN lo ELSE {},
   max_length |-> IF type = "string" THEN hi ELSE {}]

\* "Add Column": lines 198-206.  The pass goes on to the rest of the script.
AddColumn(names, types) ==
  /\ pc = "tab1"
  /\ Consume(ColumnTabEvents)
  /\ event = "add_column"
  /\ \E name \in names, type \in types, lo \in Option(BoundVals),
        hi \in Option(BoundVals) :
       LET f == FormValues(name, type, lo, hi) IN
         /\ form' = f
         /\ columns' = IF NameGiven(f) THEN Append(columns, ColumnSpec(f))
                       ELSE columns
  /\ Goto("tab2")
  /\ UNCHANGED << freshVars, uploadVars, appendVars, uploaded_file,
                  rows_to_append, historyVars >>

\* A slip: the buttons are rendered without the test of the columns.
HasColumnsAlways == TRUE

\* Lines 209 and 221: st.session_state.columns is non-empty.
HasColumns == columns # << >>

\* "Clear All Columns": lines 215-217.
ClearAllColumns ==
  /\ pc = "tab1"
  /\ Consume(ColumnTabEvents)
  /\ event = "clear_columns"
  /\ HasColumns
  /\ columns' = << >>
  /\ pc' = "rerun"
  /\ calls' = << >>
  /\ errors' = {}
  /\ UNCHANGED << freshVars, uploadVars, appendVars, uploaded_file, form,
                  rows_to_append, historyVars >>

NoColumnsError == [text |-> "Please add at least one column", detail |-> None]

\* A slip: the response is tested for another key than "task_id".
WellFormedWrongKey(result) == result.kind = "other"

\* Lines 238-239: result and "task_id" in result
WellFormed(result) == result.kind = "task"

\* "Generate Data": lines 220-241.
GenerateData ==
  /\ pc = "tab1"
  /\ Consume(ColumnTabEvents)
  /\ event = "generate"
  /\ HasColumns
  /\ IF ~HasColumns
     THEN /\ errors' = {NoColumnsError}
          /\ calls' = << >>
          /\ pc' = "tab2"
          /\ UNCHANGED << task_id, historyVars >>
     ELSE \E result \in SubmitResponses({task_id, append_task_id}) :
            /\ calls' = << Call("POST", "generate", None, result) >>
            /\ errors' = CallApiErrors(result)
            /\ IF WellFormed(result)
               THEN /\ task_id' = result.task_id
                    /\ fetched' = FALSE
                    /\ failed_seen' = FALSE
                    /\ pc' = "rerun"
               ELSE /\ pc' = "tab2"
                    /\ UNCHANGED << task_id, historyVars >>
  /\ UNCHANGED << columns, data, csv_file, uploadVars, appendVars,
                  uploaded_file, form, rows_to_append >>

\* No handler of the tab fires: the tab is only rendered.
ColumnTab ==
  /\ pc = "tab1"
  /\ Consume(ColumnTabEvents)
  /\ event # "add_column"
  /\ event \in {"clear_columns", "generate"} => ~HasColumns
  /\ Goto("tab2")
  /\ UNCHANGED << columns, freshVars, uploadVars, appendVars, uploaded_file,
                  form, rows_to_append, historyVars >>

-----------------------------------------------------------------------------
(* Results tab: lines 244-322 *)

\* A slip: a failed task is taken as completed, too.
CompletedOrFailed(task_status) ==
  task_status.kind = "body" /\ task_status.status \in {"completed", "failed"}

\* Lines 254 and 464
Completed(task_status) ==
  task_status.kind = "body" /\ task_status.status = "completed"

\* A slip: the result is fetched on every pass.
ShouldFetchAlways(d) == TRUE

\* Line 256: if not st.session_state.data
ShouldFetch(d) == ~Truthy(d)

\* Line 260: st.session_state.data and "data" in st.session_state.data
ShowsResult(d) == Truthy(d) /\ HasData(d)

\* A slip: every status but completed is taken as in progress.
InProgressUnlessCompleted(task_status) ==
  task_status.kind = "body" /\ task_status.status # "completed"

\* Lines 312-317: the auto-refresh, time.sleep(3) and st.rerun()
InProgress(task_status) ==
  task_status.kind = "body" /\ task_status.status \in {"running", "pending"}

\* Line 319
Failed(task_status) ==
  task_status.kind = "body" /\ task_status.status = "failed"

\* Line 320: f"Generation failed: {task_status.get('message', 'Unknown error')}"
FailedError(task_status) ==
  [text |-> "Generation failed",
   detail |-> IF task_status.message # None THEN task_status.message
              ELSE "Unknown error"]

CsvReadError == [text |-> "Error reading CSV file", detail |-> None]

\* Line 287: csv_result and "csv_file" in csv_result
CsvConverted(csv_result) == csv_result.kind = "csv"

ResultsTab ==
  /\ pc = "tab2"
  /\ Consume({"convert_csv"})
  /\ IF task_id = None
     THEN /\ Goto("tab3")
          /\ UNCHANGED << freshVars, historyVars >>
     ELSE \E task_status \in IF failed_seen THEN FailedResponses
                               ELSE StatusResponses :
          LET poll == Call("GET", "task", task_id, task_status)
              fetch == Completed(task_status) /\ ShouldFetch(data)
          IN
          \E body \in IF fetch THEN DataResponses(task_id) ELSE {NoData} :
          LET d == IF fetch THEN body ELSE data
              shown == Completed(task_status) /\ ShowsResult(d)
              convert == shown /\ event = "convert_csv"
          IN
          \E csv_result \in IF convert THEN CsvResponses(task_id) ELSE {NoBody} :
          LET csv == IF convert /\ CsvConverted(csv_result)
                     THEN csv_result.csv_file ELSE csv_file
              preview == shown /\ csv # NoCsv
          IN
          \E readable \in IF preview THEN BOOLEAN ELSE {TRUE} :
            /\ calls' =
                 << poll >>
                 \o (IF fetch
                     THEN << Call("GET", "data", task_id, body) >>
                     ELSE << >>)
                 \o (IF convert
                     THEN << Call("POST", "convert_to_csv", task_id,
                                  csv_result) >>
                     ELSE << >>)
            /\ errors' =
                 CallApiErrors(task_status)
                 \cup (IF fetch THEN CallApiErrors(body) ELSE {})
                 \cup (IF convert THEN CallApiErrors(csv_result) ELSE {})
                 \cup (IF ~readable THEN {CsvReadError} ELSE {})
                 \cup (IF Failed(task_status)
                       THEN {FailedError(task_status)} ELSE {})
            /\ data' = d
            /\ csv_file' = csv
            /\ fetched' = (fetched \/ fetch)
            /\ failed_seen' = (failed_seen \/ Failed(task_status))
            /\ pc' = IF InProgress(task_status) THEN "sleep" ELSE "tab3"
            /\ UNCHANGED task_id
  /\ UNCHANGED << columns, uploadVars, appendVars, uploaded_file, form,
                  rows_to_append >>

-----------------------------------------------------------------------------
(* Recent Tasks tab: lines 325-361 *)

\* "Refresh Tasks": lines 328-329.
RefreshTasks ==
  /\ pc = "tab3"
  /\ Consume(RecentTabEvents)
  /\ event = "refresh_tasks"
  /\ pc' = "rerun"
  /\ calls' = << >>
  /\ errors' = {}
  /\ UNCHANGED << columns, freshVars, uploadVars, appendVars, uploaded_file,
                  form, rows_to_append, historyVars >>

\* Lines 334 and 347: the listing came back and is not empty.
TasksListed(tasks) == tasks.kind = "list" /\ tasks.tasks # {}

\* "Load Selected Task": lines 332-357, the listing included.
LoadSelectedTask ==
  /\ pc = "tab3"
  /\ Consume(RecentTabEvents)
  /\ event = "load_task"
  /\ \E tasks \in ListResponses :
       /\ TasksListed(tasks)
       /\ calls' = << Call("GET", "tasks", None, tasks) >>
       /\ errors' = {}
       /\ \E selected \in tasks.tasks : task_id' = selected
  /\ data' = NoData
  /\ csv_file' = NoCsv
  /\ fetched' = FALSE
  /\ failed_seen' = FALSE
  /\ pc' = "rerun"
  /\ UNCHANGED << columns, uploadVars, appendVars, uploaded_file, form,
                  rows_to_append >>

\* The tab lists the tasks and no button fires: lines 332-361.
RecentTasks ==
  /\ pc = "tab3"
  /\ Consume(RecentTabEvents)
  /\ event # "refresh_tasks"
  /\ \E tasks \in ListResponses :
       /\ event = "load_task" => ~TasksListed(tasks)
       /\ calls' = << Call("GET", "tasks", None, tasks) >>
       /\ errors' = CallApiErrors(tasks)
  /\ pc' = "tab4"
  /\ UNCHANGED << columns, freshVars, uploadVars, appendVars, uploaded_file,
                  form, rows_to_append, historyVars >>

-----------------------------------------------------------------------------
(* Resume File Gen tab: lines 364-534 *)

RowCounts == {k * RowStep : k \in 0..MaxRowMult}

\* The column_info of a processed file.
DetectedColumns == << [name |-> "c", type |-> "string"] >>

\* requests.post(.../upload_csv) is called directly: it raises on a transport
\* failure, else the response has status 200 and a JSON body, or another
\* status.  The body has the four fields of the result, or lacks one.
UploadRaised == [kind |-> "raise"]
UploadRejected == [kind |-> "status"]
UploadResult(file_id, filename, row_count) ==
  [kind |-> "ok", file_id |-> file_id, filename |-> filename,
   column_info |-> DetectedColumns, row_count |-> row_count]
UploadWithout(field, result) ==
  [kind |-> "partial", missing |-> field, file_id |-> result.file_id,
   filename |-> result.filename, column_info |-> result.column_info,
   row_count |-> result.row_count]
UploadResponses(rowCounts) ==
  LET results ==
        {UploadResult(f, uploaded_file, n) : f \in FileIds, n \in rowCounts}
  IN {UploadRaised, UploadRejected}
     \cup results
     \cup {UploadWithout(field, r) :
             field \in {"file_id", "row_count"}, r \in results}

\* Lines 388-391 read the fields of the result in this order, each into its
\* session variable; the read of a missing field raises KeyError and the
\* assignments before it have been made.
UploadFields == << "file_id", "filename", "column_info", "row_count" >>
Assigned(response) ==
  IF response.kind = "ok" THEN {UploadFields[i] : i \in 1..Len(UploadFields)}
  ELSE IF response.kind = "partial"
  THEN {UploadFields[i] : i \in {j \in 1..Len(UploadFields) :
          \A k \in 1..j : UploadFields[k] # response.missing}}
  ELSE {}

Uncaught(exception) == [text |-> "Uncaught", detail |-> exception]
UploadError == [text |-> "Error processing file", detail |-> None]

\* Line 398: the sections below the uploader are rendered for a processed
\* file only; otherwise the script goes to its footer and ends.
AfterUpload == IF uploaded_file_id # None THEN "append" ELSE "wait"

\* "Process CSV": lines 378-395.  An exception ends the pass.
ProcessCSV(rowCounts) ==
  /\ pc = "tab4"
  /\ Consume(UploadEvents)
  /\ uploaded_file # None
  /\ event = "process_csv"
  /\ \E response \in UploadResponses(rowCounts) :
       LET stored == Assigned(response) IN
         /\ calls' = << Call("POST", "upload_csv", None, response) >>
         /\ uploaded_file_id' = IF "file_id" \in stored
                                THEN response.file_id ELSE uploaded_file_id
         /\ uploaded_file_name' = IF "filename" \in stored
                                  THEN response.filename
                                  ELSE uploaded_file_name
         /\ uploaded_columns' = IF "column_info" \in stored
                                THEN {response.column_info}
                                ELSE uploaded_columns
         /\ rows_detected' = IF "row_count" \in stored
                             THEN {response.row_count} ELSE rows_detected
         /\ errors' = IF response.kind = "raise"
                      THEN {Uncaught("RequestException")}
                      ELSE IF response.kind = "partial"
                      THEN {Uncaught("KeyError")}
                      ELSE IF response.kind = "status" THEN {UploadError}
                      ELSE {}
         /\ pc' = IF response.kind = "ok" THEN "rerun"
                  ELSE IF response.kind = "status" THEN AfterUpload
                  ELSE "wait"
  /\ UNCHANGED << columns, freshVars, appendVars, uploaded_file, form,
                  rows_to_append, historyVars >>

\* The uploader is rendered and "Process CSV" does not fire.
UploadSection ==
  /\ pc = "tab4"
  /\ Consume(UploadEvents)
  /\ ~(uploaded_file # None /\ event = "process_csv")
  /\ Goto(AfterUpload)
  /\ UNCHANGED << columns, freshVars, uploadVars, appendVars, uploaded_file,
                  form, rows_to_append, historyVars >>

\* int(x * 0.1) for a row count x >= 0: the product truncated.
IntTenth(x) == x \div 10

\* A slip: the default is not clamped to 10.
DefaultRowsUnclamped(n) == Max(1, IntTenth(n))

\* Line 422: min(10, max(1, int(st.session_state.rows_detected * 0.1)))
DefaultRows(n) == Min(10, Max(1, IntTenth(n)))

\* Lines 400 and 422 read st.session_state.rows_detected: an AttributeError
\* while it is unset.
RowsDefined == rows_detected # {}

\* The options of a processed file are rendered, "Generate and Append Data"
\* does not fire: lines 398-432.
AppendForm ==
  /\ pc = "append"
  /\ Consume({"append_submit"})
  /\ event = "append_submit" => ~RowsDefined
  /\ calls' = << >>
  /\ IF RowsDefined
     THEN /\ rows_to_append' = {DefaultRows(n) : n \in rows_detected}
          /\ errors' = {}
          /\ pc' = "status"
     ELSE /\ rows_to_append' = {}
          /\ errors' = {Uncaught("AttributeError")}
          /\ pc' = "wait"
  /\ UNCHANGED << columns, freshVars, uploadVars, appendVars, uploaded_file,
                  form, historyVars >>

\* "Generate and Append Data": lines 398-452.
AppendSubmit ==
  /\ pc = "append"
  /\ Consume({"append_submit"})
  /\ event = "append_submit"
  /\ RowsDefined
  /\ rows_to_append' = {DefaultRows(n) : n \in rows_detected}
  /\ \E result \in SubmitResponses({task_id, append_task_id}) :
       /\ calls' = << Call("POST", "append_data", uploaded_file_id, result) >>
       /\ errors' = CallApiErrors(result)
       /\ IF WellFormed(result)
          THEN /\ append_task_id' = result.task_id
               /\ pc' = "rerun"
          ELSE /\ UNCHANGED append_task_id
               /\ pc' = "status"
  /\ UNCHANGED << columns, freshVars, uploadVars, uploaded_file, form,
                  historyVars >>

\* requests.get(.../download_appended/{file_id}) is called directly.
DownloadOk == [kind |-> "ok"]
DownloadResponses == {[kind |-> "raise"], [kind |-> "status"], DownloadOk}

\* Append task status: lines 455-521.  The status body of a completed task
\* has the optional result_file or not; line 484 reads it with
\* task_status["result_file"], a KeyError when it is absent.  An exception
\* ends the pass.
AppendStatus ==
  /\ pc = "status"
  /\ Consume({})
  /\ IF append_task_id = None
     THEN Goto("reset")
     ELSE \E task_status \in IF failed_seen /\ append_task_id = task_id
                               THEN FailedResponses ELSE StatusResponses :
          LET poll == Call("GET", "task", append_task_id, task_status)
              download == Completed(task_status)
          IN
          \E response \in IF download THEN DownloadResponses
                          ELSE {DownloadOk} :
          \E has_result_file \in IF download /\ response.kind # "raise"
                                 THEN BOOLEAN ELSE {TRUE} :
          LET raised == download /\ response.kind = "raise" IN
            /\ calls' =
                 << poll >>
                 \o (IF download
                     THEN << Call("GET", "download_appended",
                                  uploaded_file_id, response) >>
                     ELSE << >>)
            /\ errors' =
                 CallApiErrors(task_status)
                 \cup (IF raised THEN {Uncaught("RequestException")} ELSE {})
                 \cup (IF ~has_result_file THEN {Uncaught("KeyError")}
                       ELSE {})
                 \cup (IF Failed(task_status)
                       THEN {FailedError(task_status)} ELSE {})
            /\ pc' = IF InProgress(task_status) THEN "sleep"
                     ELSE IF raised \/ ~has_result_file THEN "wait"
                     ELSE "reset"
  /\ UNCHANGED << columns, freshVars, uploadVars, appendVars, uploaded_file,
                  form, rows_to_append, historyVars >>

\* "Start New Append Task": lines 523-526, inside if append_task_id.
StartNewAppend ==
  /\ pc = "reset"
  /\ Consume(ResetEvents)
  /\ append_task_id # None
  /\ event = "new_append"
  /\ append_task_id' = None
  /\ pc' = "rerun"
  /\ calls' = << >>
  /\ errors' = {}
  /\ UNCHANGED << columns, freshVars, uploadVars, uploaded_file, form,
                  rows_to_append, historyVars >>

\* A slip: the reset also drops the fresh workflow's task and cache.
UploadDifferentFileResetsAll ==
  /\ pc = "reset"
  /\ Consume(ResetEvents)
  /\ event = "different_file"
  /\ uploaded_file_id' = None
  /\ uploaded_file_name' = None
  /\ uploaded_columns' = {}
  /\ append_task_id' = None
  /\ task_id' = None
  /\ data' = NoData
  /\ csv_file' = NoCsv
  /\ pc' = "rerun"
  /\ calls' = << >>
  /\ errors' = {}
  /\ UNCHANGED << columns, rows_detected, uploaded_file, form,
                  rows_to_append, historyVars >>

\* "Upload Different File": lines 528-534.
UploadDifferentFile ==
  /\ pc = "reset"
  /\ Consume(ResetEvents)
  /\ event = "different_file"
  /\ uploaded_file_id' = None
  /\ uploaded_file_name' = None
  /\ uploaded_columns' = {}
  /\ append_task_id' = None
  /\ pc' = "rerun"
  /\ calls' = << >>
  /\ errors' = {}
  /\ UNCHANGED << columns, freshVars, rows_detected, uploaded_file, form,
                  rows_to_append, historyVars >>

\* Neither reset button fires; the footer ends the pass: lines 523-538.
Footer ==
  /\ pc = "reset"
  /\ Consume(ResetEvents)
  /\ event # "different_file"
  /\ event = "new_append" => append_task_id = None
  /\ Goto("wait")
  /\ UNCHANGED << columns, freshVars, uploadVars, appendVars, uploaded_file,
                  form, rows_to_append, historyVars >>

-----------------------------------------------------------------------------
(* Specifications *)

\* The whole application; one column shape and one file size.
Next ==
  \/ UserEvent(AllEvents)
  \/ ChooseFile
  \/ AutoRerun
  \/ SleepRerun
  \/ CancelTask
  \/ Sidebar
  \/ AddColumn({"", "a"}, {"boolean"})
  \/ ClearAllColumns
  \/ GenerateData
  \/ ColumnTab
  \/ ResultsTab
  \/ RefreshTasks
  \/ LoadSelectedTask
  \/ RecentTasks
  \/ ProcessCSV({100})
  \/ UploadSection
  \/ AppendForm
  \/ AppendSubmit
  \/ AppendStatus
  \/ StartNewAppend
  \/ UploadDifferentFile
  \/ Footer

Spec == Init /\ [][Next]_vars

\* The column builder alone, with every kind of column.
ColumnTypes == DATA_TYPES \cap {"integer", "float", "string", "boolean"}

NextColumns ==
  \/ UserEvent(ColumnEvents)
  \/ AutoRerun
  \/ Sidebar
  \/ AddColumn(Names, ColumnTypes)
  \/ ClearAllColumns
  \/ ColumnTab
  \/ ResultsTab
  \/ RecentTasks
  \/ UploadSection

SpecColumns == Init /\ [][NextColumns]_vars

\* The upload and append workflow alone, with files of every size.
NextUpload ==
  \/ UserEvent(AppendEvents)
  \/ ChooseFile
  \/ AutoRerun
  \/ SleepRerun
  \/ Sidebar
  \/ ColumnTab
  \/ ResultsTab
  \/ RecentTasks
  \/ ProcessCSV(RowCounts)
  \/ UploadSection
  \/ AppendForm
  \/ AppendSubmit
  \/ AppendStatus
  \/ StartNewAppend
  \/ UploadDifferentFile
  \/ Footer

SpecUpload == Init /\ [][NextUpload]_vars

\* The two task workflows under the script's scheduling.  A step of the
\* script is always taken: the script runs to its end, st.rerun() starts it
\* over at once and time.sleep(3) returns.  The user's interactions are not
\* forced.
PollingEvents ==
  {"add_column", "generate", "cancel", "process_csv", "append_submit",
   "new_append"}

Script ==
  \/ AutoRerun
  \/ SleepRerun
  \/ CancelTask
  \/ Sidebar
  \/ AddColumn({"a"}, {"boolean"})
  \/ GenerateData
  \/ ColumnTab
  \/ ResultsTab
  \/ RecentTasks
  \/ ProcessCSV({100})
  \/ UploadSection
  \/ AppendForm
  \/ AppendSubmit
  \/ AppendStatus
  \/ StartNewAppend
  \/ Footer

NextPolling ==
  \/ UserEvent(PollingEvents)
  \/ ChooseFile
  \/ Script

SpecPolling == Init /\ [][NextPolling]_vars /\ WF_vars(Script)

-----------------------------------------------------------------------------
(* Properties *)

\* The exchanges of the step with the given endpoint.
Issued(cs, method, endpoint) ==
  {i \in 1..Len(cs) : cs[i].method = method /\ cs[i].endpoint = endpoint}

\* C1: a non-empty cached result and a cached CSV reference were obtained
\* for the task handle that is active.
C1_CacheOfActiveHandle ==
  /\ Truthy(data) => data.task = task_id
  /\ csv_file # NoCsv => csv_file.csv_of = task_id

\* C2: a submit with a non-empty column sequence issues exactly one
\* POST /generate, no other step issues one, and on a response with task_id
\* the task handle becomes the returned id.
C2_SubmitCreatesOneJob ==
  [][ /\ (pc = "tab1" /\ event = "generate" /\ columns # << >>)
         => /\ Len(calls') = 1
            /\ Issued(calls', "POST", "generate") = {1}
            /\ calls'[1].resp.kind = "task"
                 => task_id' = calls'[1].resp.task_id
      /\ Issued(calls', "POST", "generate") # {}
         => (pc = "tab1" /\ event = "generate")
    ]_vars

C2_Witness ==
  /\ pc = "rerun"
  /\ Issued(calls, "POST", "generate") = {1}
  /\ calls[1].resp = TaskResult("t2")
  /\ task_id = "t2"

\* C3: with an empty column sequence no step issues POST /generate, and a
\* submit leaves the task handle as it was.
C3_NoSubmitWithoutColumns ==
  [][ columns = << >>
      => /\ Issued(calls', "POST", "generate") = {}
         /\ (pc = "tab1" /\ event = "generate") => task_id' = task_id
    ]_vars

C3_Witness ==
  /\ pc = "tab1"
  /\ event = "generate"
  /\ columns = << >>
  /\ task_id # None

\* C4 as claimed: while a handle stays active, at most one GET /data is
\* issued for it, whatever the backend answers.
C4_AtMostOneFetch ==
  [][ Issued(calls', "GET", "data") # {} => ~fetched ]_vars

\* C4 as amended: GET /data is issued only by a pass that observes completed
\* while no non-empty result is cached, once in that pass and for the active
\* handle; a non-empty cached result stays until cancel or load clears it.
C4_FetchOnlyWhenNotCached ==
  [][ /\ Issued(calls', "GET", "data") # {}
         => /\ ~Truthy(data)
            /\ Issued(calls', "GET", "data") = {2}
            /\ calls'[2].id = task_id
            /\ calls'[1] = Call("GET", "task", task_id,
                                StatusBody("completed", None))
      /\ (Truthy(data) /\ data' # data)
         => (data' = NoData /\ pc \in {"sidebar", "tab3"})
    ]_vars

C4_Witness ==
  /\ pc = "tab3"
  /\ Issued(calls, "GET", "data") = {2}
  /\ calls[2].resp = RowsBody(task_id)
  /\ data = RowsBody(task_id)

\* C5: cancel with an active handle issues DELETE /tasks/{id} for it and
\* leaves the task handle, the cached result and the CSV reference empty,
\* whether the deletion succeeds or not.
C5_CancelClears ==
  [][ (pc = "sidebar" /\ event = "cancel" /\ task_id # None)
      => /\ Len(calls') = 1
         /\ calls'[1].method = "DELETE"
         /\ calls'[1].endpoint = "tasks"
         /\ calls'[1].id = task_id
         /\ task_id' = None
         /\ data' = NoData
         /\ csv_file' = NoCsv
    ]_vars

C5_Witness ==
  /\ pc = "rerun"
  /\ Issued(calls, "DELETE", "tasks") = {1}
  /\ calls[1].resp = NoBody
  /\ ApiError \in errors
  /\ task_id = None
  /\ data = NoData
  /\ csv_file = NoCsv

\* C6 as claimed: a failed poll shows the message, and once failed has been
\* observed for the active handle no auto-refresh polls that handle again.
C6_NoPollAfterFailed ==
  [][ /\ (pc = "tab2" /\ calls' # << >> /\ Failed(calls'[1].resp)
             /\ calls'[1].resp.message # None)
         => \E e \in errors' : e.detail = calls'[1].resp.message
      /\ (pc = "tab2" /\ event = "auto_refresh" /\ failed_seen
             /\ task_id # None)
         => Issued(calls', "GET", "task") = {}
    ]_vars

\* C6 as amended: a failed poll of the active handle shows the message and
\* the Results tab schedules no auto-refresh: the pass goes on to the next
\* tab.
C6_FailedShownNoAutoRefresh ==
  [][ (pc = "tab2" /\ calls' # << >> /\ Failed(calls'[1].resp))
      => /\ calls'[1].resp.message # None
            => \E e \in errors' :
                 /\ e.text = "Generation failed"
                 /\ e.detail = calls'[1].resp.message
         /\ pc' = "tab3"
    ]_vars

C6_Witness ==
  /\ pc = "tab3"
  /\ calls # << >>
  /\ calls[1] = Call("GET", "task", task_id,
                     StatusBody("failed", "model timeout"))
  /\ [text |-> "Generation failed", detail |-> "model timeout"] \in errors
  /\ append_task_id # None

\* C7: the steps of the sidebar and of the first three tabs leave the append
\* task handle and the uploaded-file context as they were; the steps of the
\* Resume File Gen tab leave the fresh task handle, the cached result and the
\* CSV reference as they were.
C7_NoCrossContamination ==
  [][ /\ pc \in {"sidebar", "tab1", "tab2", "tab3"}
         => UNCHANGED << append_task_id, uploaded_file_id, uploaded_file_name,
                         uploaded_columns, rows_detected >>
      /\ pc \in {"tab4", "append", "status", "reset"}
         => UNCHANGED << task_id, data, csv_file >>
    ]_vars

C7_Witness ==
  /\ pc = "rerun"
  /\ uploaded_file_id = None
  /\ append_task_id = None
  /\ rows_detected # {}
  /\ task_id # None
  /\ Truthy(data)
  /\ csv_file # NoCsv

\* The keys and the optional value of a key of a stored column.
Keys(c) == {kv[1] : kv \in UNION c.constraints}
Value(c, k) == {kv[2] : kv \in {x \in UNION c.constraints : x[1] = k}}
MeaningfulKeys(type) ==
  IF type \in {"integer", "float"} THEN {"ge", "le"}
  ELSE IF type = "string" THEN {"min_length", "max_length"}
  ELSE {}

\* C8: a stored column carries only keys meaningful for its type and never
\* an empty constraints mapping; the column just added carries exactly the
\* bounds entered: none entered gives no constraints, only a minimum on a
\* numeric column gives {ge: value}.
C8_ConstraintsAsEntered ==
  /\ \A i \in 1..Len(columns) :
       /\ Keys(columns[i]) \subseteq MeaningfulKeys(columns[i].type)
       /\ {} \notin columns[i].constraints
  /\ form.column_name # ""
     => /\ columns # << >>
        /\ LET c == columns[Len(columns)]
               numeric == form.column_type \in {"integer", "float"}
           IN
             /\ c.name = form.column_name
             /\ c.type = form.column_type
             /\ Value(c, "ge") = form.min_value
             /\ Value(c, "le") = form.max_value
             /\ Value(c, "min_length") = form.min_length
             /\ Value(c, "max_length") = form.max_length
             /\ (numeric /\ form.min_value = {} /\ form.max_value = {})
                => c.constraints = {}
             /\ (numeric /\ form.min_value # {} /\ form.max_value = {})
                => c.constraints = {{<<"ge", v>> : v \in form.min_value}}

C8_Witness ==
  /\ pc = "tab2"
  /\ form.column_type = "integer"
  /\ form.min_value = {0}
  /\ form.max_value = {}
  /\ columns # << >>
  /\ columns[Len(columns)].constraints = {{<<"ge", 0>>}}

\* round(0.1 * n), Python's round: halves go to the even neighbour.
RoundTenth(n) ==
  LET q == n \div 10
      r == n % 10
  IN IF r < 5 THEN q
     ELSE IF r > 5 THEN q + 1
     ELSE IF q % 2 = 0 THEN q ELSE q + 1

C10_NamesUniqueNonEmpty ==
  \A i, j \in 1..Len(columns) :
    /\ columns[i].name # ""
    /\ i # j => columns[i].name # columns[j].name

\* C11: a create-job request (POST /generate or POST /append_data) that
\* fails or whose response carries no task_id leaves the task handles, the
\* cached result and the CSV reference as they were and surfaces an error;
\* a create-job request is issued only by a pass the user's submit started.
C11_FailedSubmitStays ==
  [][ /\ \A endpoint \in {"generate", "append_data"} :
           (/\ Issued(calls', "POST", endpoint) # {}
            /\ calls'[1].resp.kind # "task")
           => /\ UNCHANGED << task_id, data, csv_file, append_task_id >>
              /\ errors' # {}
      /\ Issued(calls', "POST", "generate") # {} => event = "generate"
      /\ Issued(calls', "POST", "append_data") # {}
         => event = "append_submit"
    ]_vars

\* C12: no step of a render pass ends in an exception that the script does
\* not catch: every failure of a remote call is shown as an error message.
C12_NoUncaughtError ==
  \A e \in errors : e.text # "Uncaught"

\* The last step polled the handle h: its first exchange is GET /task/{h}.
Polled(h) ==
  /\ h # None
  /\ calls # << >>
  /\ calls[1].method = "GET"
  /\ calls[1].endpoint = "task"
  /\ calls[1].id = h

\* After a poll of the fresh handle that returned pending or running the
\* script comes back to the Results tab with that handle, where it polls
\* it, unless the handle is discarded.
C13_FreshPollingContinues ==
  \A h \in TaskIds :
    (pc = "sleep" /\ task_id = h /\ Polled(h))
    ~> ((pc = "tab2" /\ task_id = h) \/ task_id # h)

\* The same for the append handle and the append status section.
C13_AppendPollingContinues ==
  \A h \in TaskIds :
    (pc = "sleep" /\ append_task_id = h /\ Polled(h))
    ~> ((pc = "status" /\ append_task_id = h) \/ append_task_id # h)

\* C13: in either workflow, after a poll of the active handle returned
\* pending or running another poll of that handle is eventually issued,
\* unless the handle is discarded.
C13_PollingContinues ==
  C13_FreshPollingContinues /\ C13_AppendPollingContinues

\* C14: a failed status poll of the fresh handle (call_api returns None)
\* leaves the handle and the cache as they were and shows the failure once,
\* and the handle is eventually polled again unless it is discarded.
C14_FailedPollRetried ==
  /\ [][ (pc = "tab2" /\ calls' # << >> /\ calls'[1].resp = NoStatus)
         => /\ UNCHANGED << task_id, data, csv_file >>
            /\ errors' = {ApiError}
       ]_vars
  /\ \A h \in TaskIds :
       (pc = "tab3" /\ task_id = h /\ Polled(h) /\ calls[1].resp = NoStatus)
       ~> ((pc = "tab2" /\ task_id = h) \/ task_id # h)

\* C15: an upload (Process CSV) whose response is the result stores the
\* returned file_id, filename, column descriptors and row_count together and
\* starts the pass over; any other outcome surfaces an error and leaves the
\* four pieces of the uploaded-file context as they were.
C15_UploadStoresAllOrNothing ==
  [][ Issued(calls', "POST", "upload_csv") # {}
      => LET response == calls'[1].resp IN
           IF response.kind = "ok"
           THEN /\ uploaded_file_id' = response.file_id
                /\ uploaded_file_name' = response.filename
                /\ uploaded_columns' = {response.column_info}
                /\ rows_detected' = {response.row_count}
                /\ pc' = "rerun"
           ELSE /\ UNCHANGED << uploaded_file_id, uploaded_file_name,
                                uploaded_columns, rows_detected >>
                /\ errors' # {}
    ]_vars

\* C16: Upload Different File leaves the upload and append slices of the
\* session state as they are initially: no file id, no filename, no
\* detected columns, no row count and no append task handle.
C16_ResetRestoresNoFile ==
  [][ (pc = "reset" /\ event = "different_file")
      => /\ uploaded_file_id' = None
         /\ uploaded_file_name' = None
         /\ uploaded_columns' = {}
         /\ rows_detected' = {}
         /\ append_task_id' = None
    ]_vars

\* C18: whenever an uploaded file id is set the detected row count is
\* defined.
C18_RowCountDefined ==
  uploaded_file_id # None => RowsDefined

\* C19: an append task handle is stored only by an append-job request for
\* the uploaded file id, and while the handle stays the uploaded file id
\* stays; the appended file is downloaded for the uploaded file id.
C19_AppendTaskOfUploadedFile ==
  [][ /\ append_task_id' # None
         => \/ /\ append_task_id' = append_task_id
               /\ uploaded_file_id' = uploaded_file_id
            \/ /\ Issued(calls', "POST", "append_data") = {1}
               /\ calls'[1].id = uploaded_file_id'
               /\ calls'[1].resp.kind = "task"
               /\ calls'[1].resp.task_id = append_task_id'
      /\ \A i \in Issued(calls', "GET", "download_appended") :
           calls'[i].id = uploaded_file_id
    ]_vars

\* C17: GET /data/{h} and POST /convert_to_csv/{h} are issued only by a step
\* of the Results tab whose poll of the active handle h returned completed,
\* after that poll and for h; a conversion is issued only when a result with
\* rows is cached.
C17_FetchAndConvertAfterCompleted ==
  [][ LET requests ==
            Issued(calls', "GET", "data")
            \cup Issued(calls', "POST", "convert_to_csv")
      IN /\ requests # {}
            => /\ pc = "tab2"
               /\ task_id # None
               /\ calls'[1].method = "GET"
               /\ calls'[1].endpoint = "task"
               /\ calls'[1].id = task_id
               /\ calls'[1].resp.kind = "body"
               /\ calls'[1].resp.status = "completed"
               /\ \A i \in requests : i > 1 /\ calls'[i].id = task_id
         /\ Issued(calls', "POST", "convert_to_csv") # {}
            => (data'.kind = "rows" /\ event = "convert_csv")
    ]_vars

C17_Witness ==
  /\ pc = "tab3"
  /\ Len(calls) = 2
  /\ calls[1] = Call("GET", "task", task_id, StatusBody("completed", None))
  /\ calls[2] = Call("POST", "convert_to_csv", task_id, CsvBody(task_id))
  /\ data = RowsBody(task_id)
  /\ csv_file = CsvPath(task_id)

\* C20: a render pass that starts with an uploaded file and an append task
\* handle h eventually polls h, whatever the status of the fresh task,
\* unless h is discarded.
C20_AppendPolledEveryPass ==
  \A h \in TaskIds :
    (/\ pc = "sidebar"
     /\ event # "process_csv"
     /\ uploaded_file_id # None
     /\ RowsDefined
     /\ append_task_id = h)
    ~> ((append_task_id = h /\ Polled(h) /\ pc \in {"sleep", "reset", "wait"})
        \/ append_task_id # h)

====
